---- MODULE Spec2Model ----
(***************************************************************************)
(* Model of the DoctorRegister form component                              *)
(* (src/frontend/src/pages/auth/DoctorRegister.tsx).                       *)
(*                                                                         *)
(* The component keeps React state (isLoading, error, services,            *)
(* selectedServiceDetails), the react-hook-form state of seven registered  *)
(* fields (values and formState.errors), browser localStorage and the      *)
(* router location.  Strings that the code inspects character by character *)
(* (email) are tuples of one-character strings; the other text             *)
(* fields are plain strings.                                               *)
(* An absent key of a JSON object or of localStorage is a key that is not  *)
(* in the DOMAIN of the function that models the object.                   *)
(***************************************************************************)
EXTENDS Integers, Sequences, FiniteSets, TLC

VARIABLES
    services,               \* useState<Service[]>([])                  line 27
    fetchState,             \* the getServices() promise of the mount effect
    form,                   \* react-hook-form field values (useForm)   line 23
    errors,                 \* formState.errors, as the set of messages shown
    isSubmitted,            \* formState.isSubmitted: handleSubmit has run once
    selectValue,            \* value shown by the <select id="specialization">
    selectedServiceDetails, \* useState<{duration, price} | null>(null) line 28
    isLoading,              \* useState(false)                          line 24
    error,                  \* useState<string | null>(null)            line 25
    route,                  \* router location; navigate() changes it   line 102
    localStorage,           \* window.localStorage
    requests                \* registration requests sent and not yet answered

vars == <<services, fetchState, form, errors, isSubmitted, selectValue,
          selectedServiceDetails, isLoading, error, route, localStorage,
          requests>>

----------------------------------------------------------------------------
(* Bounds and input domains *)

\* longest service list getServices() answers with
MaxServices == 3

NULL == "NULL"

\* The service catalog of the backend: Service records (lines 8-14; the
\* description is never read).  The third has the name of the first and
\* other details.
ServiceCatalog ==
    << [id |-> "s1", name |-> "Cardiology",  duration |-> 30, price |-> 100],
       [id |-> "s2", name |-> "Dermatology", duration |-> 45, price |-> 150],
       [id |-> "s3", name |-> "Cardiology",  duration |-> 60, price |-> 200],
       [id |-> "s4", name |-> "Pediatrics",  duration |-> 20, price |-> 80] >>

Min(a, b) == IF a < b THEN a ELSE b

\* what getServices() can answer: the first n services of the catalog
ServiceLists ==
    { SubSeq(ServiceCatalog, 1, n) :
        n \in 0..Min(MaxServices, Len(ServiceCatalog)) }

EmailValues ==
    { <<>>,
      <<"a", "@", "b", ".", "c">>,
      <<"a", "@", "b", ".", "c", "o">> }

PasswordValues == { "", "secrt", "secret" }

TextValues == { "", "x" }

TextFields == { "name", "email", "phoneNumber", "address", "password",
                "confirmPassword" }

FieldValues(f) ==
    CASE f = "email" -> EmailValues
      [] f \in {"password", "confirmPassword"} -> PasswordValues
      [] OTHER -> TextValues

SpecializationValues ==
    { "" } \cup { ServiceCatalog[i].name : i \in 1..Len(ServiceCatalog) }
      \cup { "Neurology" }

\* the RegisterFormInputs values onSubmit is called with on its own: the
\* other fields pass their rules, the specialization is any value
OnSubmitInputs ==
    [ name : TextValues, email : { <<"a", "@", "b", ".", "c", "o">> },
      password : { "secret" }, confirmPassword : { "secret" },
      specialization : SpecializationValues,
      phoneNumber : { "x" }, address : { "x" } ]

----------------------------------------------------------------------------
(* Array.prototype.find, line 50 and line 65 *)

RECURSIVE FindFrom(_, _, _)
FindFrom(list, name, i) ==
    IF i > Len(list) THEN 0
    ELSE IF list[i].name = name THEN i
    ELSE FindFrom(list, name, i + 1)

\* find with a callback that does not compare: service => service.name
FindTruthy(list, name) == IF Len(list) > 0 THEN 1 ELSE 0

\* index of the first service named `name`, 0 when find answers undefined
Find(list, name) == FindFrom(list, name, 1)

----------------------------------------------------------------------------
(* Field rules given to register(), lines 143-291, as react-hook-form's     *)
(* handleSubmit evaluates them: per field, `required` first, then           *)
(* minLength, pattern and validate; the first failing rule gives the        *)
(* message.                                                                 *)

Letters ==
    { "a", "b", "c", "d", "e", "f", "g", "h", "i", "j", "k", "l", "m",
      "n", "o", "p", "q", "r", "s", "t", "u", "v", "w", "x", "y", "z",
      "A", "B", "C", "D", "E", "F", "G", "H", "I", "J", "K", "L", "M",
      "N", "O", "P", "Q", "R", "S", "T", "U", "V", "W", "X", "Y", "Z" }

Digits == { "0", "1", "2", "3", "4", "5", "6", "7", "8", "9" }

\* /^[A-Z0-9._%+-]+@[A-Z0-9.-]+\.[A-Z]{2,}$/i, line 163: the string splits
\* as local "@" domain "." tld, with the three parts in their classes.
EmailPatternTest(s) ==
    \E at \in 1..Len(s), dot \in 1..Len(s) :
        /\ s[at] = "@"
        /\ s[dot] = "."
        /\ at >= 2
        /\ dot >= at + 2
        /\ Len(s) - dot >= 2
        /\ \A k \in 1..(at - 1) :
              s[k] \in Letters \cup Digits \cup { ".", "_", "%", "+", "-" }
        /\ \A k \in (at + 1)..(dot - 1) :
              s[k] \in Letters \cup Digits \cup { ".", "-" }
        /\ \A k \in (dot + 1)..Len(s) : s[k] \in Letters

\* minLength value of the password field, line 267
MinPasswordLength == 6

\* watch('password'), line 33: the value of the render that registered the
\* validate function, which is the current field value
password == form.password

\* the rules without the validate function of confirmPassword
FieldErrorNoValidate(f, v, pw) ==
    CASE f = "name" ->
           IF v.name = "" THEN { "Name is required" } ELSE {}
      [] f = "email" ->
           IF v.email = <<>> THEN { "Email is required" }
           ELSE IF ~EmailPatternTest(v.email) THEN { "Invalid email address" }
           ELSE {}
      [] f = "specialization" ->
           IF v.specialization = "" THEN { "Service selection is required" }
           ELSE {}
      [] f = "phoneNumber" ->
           IF v.phoneNumber = "" THEN { "Phone number is required" } ELSE {}
      [] f = "address" ->
           IF v.address = "" THEN { "Address is required" } ELSE {}
      [] f = "password" ->
           IF v.password = "" THEN { "Password is required" }
           ELSE IF Len(v.password) < MinPasswordLength
                THEN { "Password must be at least 6 characters" }
           ELSE {}
      [] f = "confirmPassword" ->
           IF v.confirmPassword = "" THEN { "Please confirm your password" }
           ELSE {}

\* the message of the first failing rule of field f for the values `v`,
\* as a set with at most one element; `pw` is the watched password.
FieldError(f, v, pw) ==
    CASE f = "name" ->
           IF v.name = "" THEN { "Name is required" } ELSE {}
      [] f = "email" ->
           IF v.email = <<>> THEN { "Email is required" }
           ELSE IF ~EmailPatternTest(v.email) THEN { "Invalid email address" }
           ELSE {}
      [] f = "specialization" ->
           IF v.specialization = "" THEN { "Service selection is required" }
           ELSE {}
      [] f = "phoneNumber" ->
           IF v.phoneNumber = "" THEN { "Phone number is required" } ELSE {}
      [] f = "address" ->
           IF v.address = "" THEN { "Address is required" } ELSE {}
      [] f = "password" ->
           IF v.password = "" THEN { "Password is required" }
           ELSE IF Len(v.password) < MinPasswordLength
                THEN { "Password must be at least 6 characters" }
           ELSE {}
      [] f = "confirmPassword" ->
           IF v.confirmPassword = "" THEN { "Please confirm your password" }
           ELSE IF v.confirmPassword # pw THEN { "The passwords do not match" }
           ELSE {}

Fields == TextFields \cup { "specialization" }

\* every message field f can show
FieldMessages(f) ==
    CASE f = "name" -> { "Name is required" }
      [] f = "email" -> { "Email is required", "Invalid email address" }
      [] f = "specialization" -> { "Service selection is required" }
      [] f = "phoneNumber" -> { "Phone number is required" }
      [] f = "address" -> { "Address is required" }
      [] f = "password" ->
           { "Password is required", "Password must be at least 6 characters" }
      [] f = "confirmPassword" ->
           { "Please confirm your password", "The passwords do not match" }

\* the errors handleSubmit(onSubmit) finds, line 130
FormErrors(v, pw) == UNION { FieldError(f, v, pw) : f \in Fields }

----------------------------------------------------------------------------
(* Responses of the registration endpoint.  A response is ok (2xx) or not;  *)
(* its body parses as a JSON object or response.json() rejects.            *)

UserValues ==
    { [id |-> "u1", name |-> "x", email |-> "a@b.co",
       specialization |-> "Cardiology"],
      [id |-> "u1", name |-> "x", email |-> "a@b.co"] }

DataValues ==
    { [token |-> "jwt-1", user |-> u] : u \in UserValues }
      \cup { [token |-> "jwt-1"] }
      \cup { [user |-> u] : u \in UserValues }

JsonBodies ==
    { [message |-> "Email exists"], [message |-> ""], [success |-> FALSE] }
      \cup { [data |-> d] : d \in DataValues }

\* json is the parsed body, or empty when the body is not JSON
Responses ==
    [ ok : BOOLEAN, json : { {b} : b \in JsonBodies } \cup { {} } ]

\* what engines report for JSON.parse and for a property read of undefined
SyntaxErrorMessage == "Unexpected token < in JSON at position 0"
TypeErrorMessage(prop) ==
    "Cannot read properties of undefined (reading '" \o prop \o "')"
NetworkErrorMessage == "Failed to fetch"

\* obj.key of a JSON object that has the key
Has(obj, key) == key \in DOMAIN obj

\* localStorage.setItem(key, value)
SetItem(store, key, value) ==
    [ k \in DOMAIN store \cup {key} |-> IF k = key THEN value ELSE store[k] ]

\* the string a possibly undefined property is stored as by setItem
DOMString(obj, key) == IF Has(obj, key) THEN obj[key] ELSE "undefined"

\* JSON.stringify of an object with string values: the members in the order
\* `keys`, a member whose value is undefined left out
RECURSIVE JsonMembers(_, _, _)
JsonMembers(obj, keys, first) ==
    IF keys = <<>> THEN ""
    ELSE IF ~Has(obj, Head(keys)) THEN JsonMembers(obj, Tail(keys), first)
    ELSE (IF first THEN "" ELSE ",")
           \o "\"" \o Head(keys) \o "\":\"" \o obj[Head(keys)] \o "\""
           \o JsonMembers(obj, Tail(keys), FALSE)

JSONStringify(obj, keys) == "{" \o JsonMembers(obj, keys, TRUE) \o "}"

\* the object without its role member
UserSummaryNoRole(user) ==
    [ k \in {"id", "name", "email", "specialization"} \cap DOMAIN user
        |-> user[k] ]

\* the object of lines 93-99
UserSummary(user) ==
    [ k \in ({"id", "name", "email", "specialization"} \cap DOMAIN user)
           \cup {"role"} |-> IF k = "role" THEN "doctor" ELSE user[k] ]

SummaryKeys == <<"id", "name", "email", "role", "specialization">>

----------------------------------------------------------------------------
(* Initial state: the component has mounted, the effect of lines 37-47 has  *)
(* called getServices() and its promise is pending.                         *)

EmptyForm ==
    [ name |-> "", email |-> <<>>, password |-> "", confirmPassword |-> "",
      specialization |-> "", phoneNumber |-> "", address |-> "" ]

EmptyStorage == [ k \in {} |-> "" ]

Init ==
    /\ services = <<>>
    /\ fetchState = "pending"
    /\ form = EmptyForm
    /\ errors = {}
    /\ isSubmitted = FALSE
    /\ selectValue = ""
    /\ selectedServiceDetails = {}
    /\ isLoading = FALSE
    /\ error = NULL
    /\ route = "/doctor/register"
    /\ localStorage = EmptyStorage
    /\ requests = <<>>

\* the form is rendered: navigate() has not replaced the page
Mounted == route = "/doctor/register"

\* The focus leaves the <select> only with a blur event.  While the element
\* shows a value the form has not stored, that event is still to come, and
\* no other input or control can have been used.
SelectBlurred == form.specialization = selectValue

----------------------------------------------------------------------------
(* fetchServices, lines 38-46 *)

\* getServices() resolves with `data`; the state of an unmounted component
\* is not updated
FetchServicesResolve(data) ==
    /\ fetchState = "pending"
    /\ fetchState' = "done"
    /\ services' = IF Mounted THEN data ELSE services
    /\ UNCHANGED <<form, errors, isSubmitted, selectValue,
                   selectedServiceDetails, isLoading, error, route,
                   localStorage, requests>>

\* getServices() rejects: console.error, services stay empty
FetchServicesReject ==
    /\ fetchState = "pending"
    /\ fetchState' = "failed"
    /\ UNCHANGED <<services, form, errors, isSubmitted, selectValue,
                   selectedServiceDetails, isLoading, error,
                   route, localStorage, requests>>

----------------------------------------------------------------------------
(* The inputs registered without an onChange override, lines 143, 160, 230, *)
(* 247, 264, 287: react-hook-form stores the value and, once the form has   *)
(* been submitted, checks the rules of the changed field again              *)
(* (reValidateMode onChange).                                               *)

ChangeField(f, value) ==
    /\ Mounted
    /\ SelectBlurred
    /\ form[f] # value
    /\ form' = [form EXCEPT ![f] = value]
    /\ errors' = IF isSubmitted
                 THEN (errors \ FieldMessages(f))
                        \cup FieldError(f, form', form'.password)
                 ELSE errors
    /\ UNCHANGED <<services, fetchState, isSubmitted, selectValue,
                   selectedServiceDetails, isLoading, error,
                   route, localStorage, requests>>

----------------------------------------------------------------------------
(* The specialization <select>, lines 181-193 *)

\* the values the user can choose: the placeholder and one per service
SelectOptions == { "" } \cup { services[i].name : i \in 1..Len(services) }

\* a handler that clears the details when no service is found
handleServiceChangeClearing(value) ==
    /\ Mounted
    /\ value \in SelectOptions
    /\ selectValue' = value
    /\ LET selectedService == Find(services, value) IN
         IF selectedService # 0
         THEN /\ form' = [form EXCEPT
                             !.specialization = services[selectedService].name]
              /\ selectedServiceDetails' =
                   { [ duration |-> services[selectedService].duration,
                       price |-> services[selectedService].price ] }
         ELSE /\ form' = form
              /\ selectedServiceDetails' = {}
    /\ UNCHANGED <<services, fetchState, errors, isSubmitted, isLoading, error,
                   route, localStorage, requests>>

\* handleServiceChange, lines 49-58, for a change event with e.target.value
\* = value.  The handler replaces the onChange of register(), so the field
\* value changes only through setValue.
handleServiceChange(value) ==
    /\ Mounted
    /\ value \in SelectOptions
    /\ selectValue' = value
    /\ LET selectedService == Find(services, value) IN
         IF selectedService # 0
         THEN /\ form' = [form EXCEPT
                             !.specialization = services[selectedService].name]
              /\ selectedServiceDetails' =
                   { [ duration |-> services[selectedService].duration,
                       price |-> services[selectedService].price ] }
         ELSE UNCHANGED <<form, selectedServiceDetails>>
    /\ UNCHANGED <<services, fetchState, errors, isSubmitted, isLoading, error,
                   route, localStorage, requests>>

\* the onBlur of register('specialization'), line 183: when the focus leaves
\* the <select>, react-hook-form stores the value the element shows; no rule
\* is checked on blur
BlurSpecialization ==
    /\ Mounted
    /\ ~SelectBlurred
    /\ form' = [form EXCEPT !.specialization = selectValue]
    /\ UNCHANGED <<services, fetchState, errors, isSubmitted, selectValue,
                   selectedServiceDetails, isLoading, error, route,
                   localStorage, requests>>

----------------------------------------------------------------------------
(* onSubmit, lines 60-108 *)

\* the message the catch block shows, line 104
CatchMessage(message) ==
    IF message # "" THEN message ELSE "Registration failed. Please try again."

\* the JSON body of the request, lines 74-82
RequestBody(data) ==
    [ name |-> data.name, email |-> data.email, password |-> data.password,
      specialization |-> data.specialization,
      phoneNumber |-> data.phoneNumber, address |-> data.address,
      role |-> "doctor" ]

\* lines 61-83: up to the first await.  A specialization that names no
\* service throws before fetch; catch and finally run in the same step.
onSubmit(data) ==
    /\ IF Find(services, data.specialization) = 0
       THEN /\ error' = CatchMessage("Please select a valid specialization")
            /\ isLoading' = FALSE
            /\ requests' = requests
       ELSE /\ error' = NULL
            /\ isLoading' = TRUE
            /\ requests' = Append(requests, RequestBody(data))
    /\ UNCHANGED <<services, fetchState, selectValue, selectedServiceDetails,
                   route, localStorage>>

\* a submit control without the disabled attribute
SubmitAlwaysEnabled == TRUE

\* the submit control, lines 304-310: disabled while isLoading
SubmitEnabled == ~isLoading

\* a submit event: handleSubmit(onSubmit), line 130, checks every field and
\* calls onSubmit with the field values only when no rule fails
handleSubmit ==
    /\ Mounted
    /\ SubmitEnabled
    /\ SelectBlurred
    /\ isSubmitted' = TRUE
    /\ errors' = FormErrors(form, password)
    /\ IF FormErrors(form, password) = {}
       THEN onSubmit(form) /\ form' = form
       ELSE UNCHANGED <<services, fetchState, form, selectValue,
                        selectedServiceDetails, isLoading, error, route,
                        localStorage, requests>>

RemoveAt(seq, i) == SubSeq(seq, 1, i - 1) \o SubSeq(seq, i + 1, Len(seq))

\* lines 85-102 for a response: the message thrown (NULL when nothing is
\* thrown) and localStorage as the statements executed before it leave it
Outcome(response, store) ==
    IF response.json = {}
    THEN [ thrown |-> SyntaxErrorMessage, store |-> store ]
    ELSE LET result == CHOOSE b \in response.json : TRUE IN
         IF ~response.ok
         THEN [ thrown |-> IF Has(result, "message") /\ result.message # ""
                           THEN result.message
                           ELSE "Registration failed",
                store |-> store ]
         ELSE IF ~Has(result, "data")
         THEN [ thrown |-> TypeErrorMessage("token"), store |-> store ]
         ELSE LET withToken ==
                      SetItem(store, "token", DOMString(result.data, "token"))
              IN IF ~Has(result.data, "user")
                 THEN [ thrown |-> TypeErrorMessage("id"), store |-> withToken ]
                 ELSE [ thrown |-> NULL,
                        store |-> SetItem(withToken, "user",
                                    JSONStringify(UserSummary(result.data.user),
                                                  SummaryKeys)) ]

\* the fetch of request i resolves with `response`: lines 85-107
Respond(i, response) ==
    /\ i \in 1..Len(requests)
    /\ requests' = RemoveAt(requests, i)
    /\ LET out == Outcome(response, localStorage) IN
         /\ localStorage' = out.store
         /\ IF out.thrown = NULL
            THEN /\ route' = "/doctor/dashboard"
                 /\ error' = error
            ELSE /\ route' = route
                 /\ error' = CatchMessage(out.thrown)
    /\ isLoading' = FALSE
    /\ UNCHANGED <<services, fetchState, form, errors, isSubmitted,
                   selectValue, selectedServiceDetails>>

\* a rejection handled without the finally block
FetchRejectsNoFinally(i) ==
    /\ i \in 1..Len(requests)
    /\ requests' = RemoveAt(requests, i)
    /\ error' = CatchMessage(NetworkErrorMessage)
    /\ UNCHANGED <<services, fetchState, form, errors, isSubmitted,
                   selectValue, selectedServiceDetails, route, localStorage,
                   isLoading>>

\* the fetch of request i rejects (no connection): lines 103-107
FetchRejects(i) ==
    /\ i \in 1..Len(requests)
    /\ requests' = RemoveAt(requests, i)
    /\ error' = CatchMessage(NetworkErrorMessage)
    /\ isLoading' = FALSE
    /\ UNCHANGED <<services, fetchState, form, errors, isSubmitted,
                   selectValue, selectedServiceDetails, route,
                   localStorage>>

----------------------------------------------------------------------------

Next ==
    \/ \E data \in ServiceLists : FetchServicesResolve(data)
    \/ FetchServicesReject
    \/ \E f \in TextFields : \E value \in FieldValues(f) : ChangeField(f, value)
    \/ \E value \in SpecializationValues : handleServiceChange(value)
    \/ BlurSpecialization
    \/ handleSubmit
    \/ \E i \in 1..Len(requests) : \E response \in Responses :
          Respond(i, response)
    \/ \E i \in 1..Len(requests) : FetchRejects(i)

Spec == Init /\ [][Next]_vars

\* the server eventually answers a request that was sent
LiveSpec ==
    Spec /\ WF_vars(\E i \in 1..Len(requests) :
                       \/ \E response \in Responses : Respond(i, response)
                       \/ FetchRejects(i))

----------------------------------------------------------------------------
(* onSubmit as a handler of its own: the service list is any list the API   *)
(* can answer and the specialization of `data` any value.                   *)

InitOnSubmit ==
    /\ services \in ServiceLists
    /\ fetchState = "done"
    /\ form = EmptyForm
    /\ errors = {}
    /\ isSubmitted = FALSE
    /\ selectValue = ""
    /\ selectedServiceDetails = {}
    /\ isLoading = FALSE
    /\ error = NULL
    /\ route = "/doctor/register"
    /\ localStorage = EmptyStorage
    /\ requests = <<>>

\* the form holds `data` and onSubmit is called with it
CallOnSubmit(data) ==
    /\ Mounted
    /\ SubmitEnabled
    /\ form' = data
    /\ onSubmit(data)
    /\ UNCHANGED <<errors, isSubmitted>>

NextOnSubmit ==
    \/ \E data \in OnSubmitInputs : CallOnSubmit(data)
    \/ \E i \in 1..Len(requests) : \E response \in Responses :
          Respond(i, response)
    \/ \E i \in 1..Len(requests) : FetchRejects(i)

SpecOnSubmit == InitOnSubmit /\ [][NextOnSubmit]_vars

----------------------------------------------------------------------------
(* Properties *)

ServiceNames == { services[i].name : i \in 1..Len(services) }

\* C1: a run of onSubmit whose specialization is not the name of a fetched
\* service ends with the error 'Please select a valid specialization', not
\* loading, and sends no request; every request that is outstanding carries
\* the name of a fetched service.
C1_InvalidSpecializationRejected ==
    /\ [][(CallOnSubmit(form') /\ form'.specialization \notin ServiceNames)
            => /\ error' = "Please select a valid specialization"
               /\ isLoading' = FALSE
               /\ requests' = requests
               /\ localStorage' = localStorage]_vars
    /\ [](\A k \in 1..Len(requests) :
            requests[k].specialization \in ServiceNames)

C1_Witness ==
    /\ error = "Please select a valid specialization"
    /\ form.specialization = "Neurology"
    /\ ~isLoading
    /\ requests = <<>>
    /\ services # <<>>

\* C2: at most one registration request is outstanding, and the submit
\* control is disabled (isLoading) as long as one is.
C2_SingleSubmissionInFlight ==
    /\ Len(requests) <= 1
    /\ (requests # <<>> => isLoading /\ ~SubmitEnabled)

\* a request is outstanding while the form would pass every rule again
C2_Witness ==
    /\ Len(requests) = 1
    /\ Mounted
    /\ SelectBlurred
    /\ FormErrors(form, password) = {}

\* C3: a step that completes a submission in failure (error set, still on
\* the form) leaves localStorage as it was.
C3_FailureWritesNoStorage ==
    [][(Len(requests') < Len(requests) /\ error' # NULL /\ Mounted')
         => localStorage' = localStorage]_vars

\* the message of a parsed non-2xx body, or the fallback of line 88
ExpectedServerMessage(response) ==
    IF \E b \in response.json : Has(b, "message") /\ b.message # ""
    THEN (CHOOSE b \in response.json : TRUE).message
    ELSE "Registration failed"

\* C4: for every non-2xx response the error shown is the message of the
\* body when it carries a non-empty one and 'Registration failed' when it
\* carries none; nothing is stored and the form does not navigate.
C4_NonOkShowsServerMessageOrFallback ==
    [][\A i \in 1..Len(requests) : \A response \in Responses :
          (~response.ok /\ Respond(i, response))
            => /\ error' = ExpectedServerMessage(response)
               /\ localStorage' = localStorage
               /\ route' = route]_vars

\* the JSON text of the summary of each user the endpoint answers with
ExpectedUserJSON(user) ==
    IF Has(user, "specialization")
    THEN "{\"id\":\"u1\",\"name\":\"x\",\"email\":\"a@b.co\",\"role\":\"doctor\",\"specialization\":\"Cardiology\"}"
    ELSE "{\"id\":\"u1\",\"name\":\"x\",\"email\":\"a@b.co\",\"role\":\"doctor\"}"

C6_SubmissionStateMachine ==
    /\ isLoading ~> ~isLoading
    /\ [](isLoading => requests # <<>>)
    /\ [][(~isLoading /\ isLoading')
            => (Mounted /\ requests = <<>> /\ Len(requests') = 1)]_vars
    /\ [][(isLoading /\ ~isLoading')
            => \/ route' = "/doctor/dashboard"
               \/ Mounted' /\ error' \notin {NULL, ""}]_vars
    /\ [][~Mounted
            => UNCHANGED <<isLoading, error, requests, localStorage,
                           route>>]_vars
    /\ []((Mounted /\ ~isLoading /\ SelectBlurred) => ENABLED handleSubmit)

\* a submission has ended in failure and the form is idle again
C6_Witness ==
    /\ Mounted
    /\ isSubmitted
    /\ ~isLoading
    /\ requests = <<>>
    /\ error = "Email exists"

\* the response makes lines 85-99 throw something other than the Error of
\* line 88
ThrowsUnexpected(response) ==
    \/ response.json = {}
    \/ /\ response.ok
       /\ \E result \in response.json :
             ~Has(result, "data") \/ ~Has(result.data, "user")

\* C7: when the request fails, or the body cannot be parsed or lacks the
\* expected fields, the error shown is the generic fallback message.
C7_UnexpectedExceptionShowsFallback ==
    [][\A i \in 1..Len(requests) :
          (\/ FetchRejects(i)
           \/ \E response \in Responses :
                 Respond(i, response) /\ ThrowsUnexpected(response))
            => error' = "Registration failed. Please try again."]_vars

C9_DetailsMatchSelection ==
    \/ selectedServiceDetails = {}
    \/ \E i \in 1..Len(services) :
          /\ services[i].name = form.specialization
          /\ selectedServiceDetails =
               { [ duration |-> services[i].duration,
                   price |-> services[i].price ] }

\* the field rules of the form, stated on the values
RulesPass(v) ==
    /\ v.name # ""
    /\ v.email # <<>> /\ EmailPatternTest(v.email)
    /\ v.specialization # ""
    /\ v.phoneNumber # ""
    /\ v.address # ""
    /\ v.password # "" /\ Len(v.password) >= 6
    /\ v.confirmPassword # "" /\ v.confirmPassword = v.password

\* C10: a request is sent or the submission state changes on a submit event
\* only when the form passes every rule; a submit event on a form that fails
\* one (confirmPassword other than password among them) changes neither
\* isLoading nor error nor localStorage and sends no request.
C10_SubmitOnlyValidForm ==
    /\ [][(handleSubmit /\ (isLoading' \/ error' # error
                              \/ requests' # requests))
            => RulesPass(form)]_vars
    /\ [][(handleSubmit /\ ~RulesPass(form))
            => UNCHANGED <<isLoading, error, localStorage, requests,
                           route>>]_vars

\* a submit event found only the passwords different, and nothing started
C10_Witness ==
    /\ isSubmitted
    /\ errors = { "The passwords do not match" }
    /\ form.confirmPassword # form.password
    /\ form.confirmPassword # ""
    /\ ~isLoading
    /\ error = NULL
    /\ requests = <<>>
    /\ localStorage = EmptyStorage

====
